---- MODULE Spec2Model ----
(***************************************************************************)
(* State-machine model of the container library in                         *)
(* src/inventory/datastructures: LinkedList (hash bucket chain), HashMap   *)
(* (separate chaining, doubling resize), Dictionary (facade over one       *)
(* HashMap) and MinHeap (array-encoded binary heap).                       *)
(*                                                                         *)
(* Python values are modelled as follows.  Keys are small positive         *)
(* integers standing for hashable keys; hash(key) is seed * key, where     *)
(* seed is fixed per process (string hashing is salted per interpreter     *)
(* start, integer hashing is the identity, hashes may be negative).        *)
(* Stored values are strings; the string "None" stands for Python's None,  *)
(* which the code tests with `is None`.  A load factor is an exact         *)
(* fraction <<num, den>>; for the small integers used here the float       *)
(* comparison size / cap > load agrees with the exact comparison.          *)
(***************************************************************************)
EXTENDS Integers, Sequences, FiniteSets, TLC

\* ----------------------------------------------------------------------
\* Bounds of the model
\* ----------------------------------------------------------------------
NumKeys == 3
MaxKwargs == 12
MaxHeapLen == 4
MaxHeapVal == 3

Keys == 1..NumKeys
None == "None"
Values == {None, "v1", "v2"}
Absent == "absent"
HashSeeds == {1, -1, 4}
InitCaps == {2, 6}
LoadFactors == {<<3, 4>>, <<1, 2>>, <<1, 10>>}

VARIABLES
    seed,       \* per-process hash salt: hash(k) = seed * k
    cap,        \* HashMap._cap
    load,       \* HashMap._load as <<numerator, denominator>>
    buckets,    \* HashMap._buckets: sequence of optional LinkedList
    size,       \* HashMap._size
    cap0,       \* capacity the map was constructed with (after normalization)
    present,    \* reference map: key -> last value set, or Absent
    last,       \* <<operation, key>> of the last map call
    ret,        \* what the last map call returned (or the error it raised)
    data,       \* MinHeap._data
    hlast,      \* <<operation, argument>> of the last heap call
    hret,       \* <<"ok", x>>, <<"None">> or <<"IndexError">> of the last heap call
    twin,       \* a second MinHeap, bulk-built from the same elements
    todo,       \* elements still to be pushed onto data
    pushed,     \* elements pushed onto data so far, in push order
    out,        \* elements popped from data, in pop order
    twinOut,    \* elements popped from twin, in pop order
    lbuf,       \* CustomList._buf
    lsize,      \* CustomList._size
    lcapacity,  \* CustomList._capacity
    ref,        \* a standard list receiving the same appends
    llast,      \* name of the last list call
    lret,       \* what the last list call returned (or the error it raised)
    lcaps,      \* <<capacity before the call before the last, capacity before the last call>>
    chain,      \* a LinkedList: its nodes <<key, value>> from head to tail
    born,       \* keys of the chain's nodes, the most recently created first
    clast,      \* name of the last chain call
    cret,       \* what the last chain call returned
    products,   \* rows of table products; the id of a row is its position
    pos,        \* rows of table purchase_orders; the id of a row is its position
    receipts,   \* per purchase order, how often its stock was added to a product
    dlast,      \* name of the last data-access call
    dret        \* <<"ok", x>>, <<"None">> or <<"ValueError">> of the last data-access call

mapVars == <<seed, cap, load, buckets, size, cap0, present, last, ret>>
heapVars == <<data, hlast, hret>>
drainVars == <<twin, todo, pushed, out, twinOut>>
listVars == <<lbuf, lsize, lcapacity, ref, llast, lret, lcaps>>
chainVars == <<chain, born, clast, cret>>
daoVars == <<products, pos, receipts, dlast, dret>>
vars == <<seed, cap, load, buckets, size, cap0, present, last, ret,
          data, hlast, hret, twin, todo, pushed, out, twinOut,
          lbuf, lsize, lcapacity, ref, llast, lret, lcaps,
          chain, born, clast, cret, products, pos, receipts, dlast, dret>>

\* ----------------------------------------------------------------------
\* LinkedList (linked_list.py).  A chain is the sequence of its nodes
\* <<key, value>> from head to tail.
\* ----------------------------------------------------------------------
RECURSIVE FirstIndex(_, _, _)
FirstIndex(nodes, key, i) ==
    IF i > Len(nodes) THEN 0
    ELSE IF nodes[i][1] = key THEN i
    ELSE FirstIndex(nodes, key, i + 1)

\* LLInsertOrReplace that moves a replaced node to the head
LLInsertOrReplace_MovesToHead(nodes, key, value) ==
    LET i == FirstIndex(nodes, key, 1) IN
    IF i # 0
    THEN [nodes |-> <<<<key, value>>>> \o SubSeq(nodes, 1, i - 1)
                       \o SubSeq(nodes, i + 1, Len(nodes)),
          inserted |-> FALSE]
    ELSE [nodes |-> <<<<key, value>>>> \o nodes, inserted |-> TRUE]

LLInsertOrReplace(nodes, key, value) ==
    LET i == FirstIndex(nodes, key, 1) IN
    IF i # 0
    THEN [nodes |-> [nodes EXCEPT ![i] = <<key, value>>], inserted |-> FALSE]
    ELSE [nodes |-> <<<<key, value>>>> \o nodes, inserted |-> TRUE]

LLFind(nodes, key) ==
    LET i == FirstIndex(nodes, key, 1) IN
    IF i # 0 THEN nodes[i][2] ELSE None

LLDelete(nodes, key) ==
    LET i == FirstIndex(nodes, key, 1) IN
    IF i # 0
    THEN [nodes |-> SubSeq(nodes, 1, i - 1) \o SubSeq(nodes, i + 1, Len(nodes)),
          deleted |-> TRUE]
    ELSE [nodes |-> nodes, deleted |-> FALSE]

LLItems(nodes) == nodes

\* ----------------------------------------------------------------------
\* HashMap (hash_map.py).  A map value is the record of the object's
\* slots; a bucket is [alloc, nodes]: alloc = FALSE is the lazy None slot.
\* ----------------------------------------------------------------------
NoBucket == [alloc |-> FALSE, nodes |-> <<>>]
NewLinkedList == [alloc |-> TRUE, nodes |-> <<>>]

Hash(key) == seed * key

\* Python's & on unbounded two's-complement integers, for a mask >= 0.
RECURSIVE BitAnd(_, _)
BitAnd(h, mask) ==
    IF mask = 0 THEN 0
    ELSE (h % 2) * (mask % 2) + 2 * BitAnd(h \div 2, mask \div 2)

HashMapInit(capacity, load_factor) ==
    LET c == IF capacity < 4 THEN 4 ELSE capacity IN
    [cap |-> c, load |-> load_factor,
     buckets |-> [i \in 1..c |-> NoBucket], size |-> 0]

\* BucketIndex that masks whatever the capacity
BucketIndex_AlwaysMasks(m, key) == BitAnd(Hash(key), m.cap - 1)

BucketIndex(m, key) ==
    LET h == Hash(key) IN
    IF BitAnd(m.cap, m.cap - 1) = 0 THEN BitAnd(h, m.cap - 1) ELSE h % m.cap

\* buckets[idx].insert_or_replace(k, v) after lazy allocation of the slot
BucketInsert(bs, idx, key, value) ==
    LET b == IF bs[idx + 1].alloc THEN bs[idx + 1] ELSE NewLinkedList
        r == LLInsertOrReplace(b.nodes, key, value)
    IN [buckets |-> [bs EXCEPT ![idx + 1] = [alloc |-> TRUE, nodes |-> r.nodes]],
        inserted |-> r.inserted]

RECURSIVE HItemsFrom(_, _)
HItemsFrom(bs, i) ==
    IF i > Len(bs) THEN <<>>
    ELSE (IF bs[i].alloc THEN LLItems(bs[i].nodes) ELSE <<>>) \o HItemsFrom(bs, i + 1)

HItems(m) == HItemsFrom(m.buckets, 1)

\* the loop of _resize: every old pair goes into the new buckets
RECURSIVE Rehash(_, _, _)
Rehash(m, pairs, i) ==
    IF i > Len(pairs) THEN m
    ELSE LET idx == BucketIndex(m, pairs[i][1])
             r == BucketInsert(m.buckets, idx, pairs[i][1], pairs[i][2])
         IN Rehash([m EXCEPT !.buckets = r.buckets, !.size = m.size + 1],
                   pairs, i + 1)

\* HResize that stops one entry short of the end of the old buckets
HResize_DropLast(m) ==
    LET old == HItemsFrom(m.buckets, 1)
        c == m.cap * 2
    IN Rehash([m EXCEPT !.cap = c,
                        !.buckets = [i \in 1..c |-> NoBucket],
                        !.size = 0],
              SubSeq(old, 1, Len(old) - 1), 1)

\* HResize that grows the table fourfold
HResize_Quadruples(m) ==
    LET old == HItemsFrom(m.buckets, 1)
        c == m.cap * 4
    IN Rehash([m EXCEPT !.cap = c,
                        !.buckets = [i \in 1..c |-> NoBucket],
                        !.size = 0],
              old, 1)

HResize(m) ==
    LET old == HItemsFrom(m.buckets, 1)
        c == m.cap * 2
    IN Rehash([m EXCEPT !.cap = c,
                        !.buckets = [i \in 1..c |-> NoBucket],
                        !.size = 0],
              old, 1)

\* size / cap > load, on exact fractions
OverLoad(m) == m.size * m.load[2] > m.load[1] * m.cap

HSet(m, key, value) ==
    LET idx == BucketIndex(m, key)
        r == BucketInsert(m.buckets, idx, key, value)
        m1 == [m EXCEPT !.buckets = r.buckets]
    IN IF r.inserted
       THEN LET m2 == [m1 EXCEPT !.size = m.size + 1]
            IN IF OverLoad(m2) THEN HResize(m2) ELSE m2
       ELSE m1

HGet(m, key, default) ==
    LET bucket == m.buckets[BucketIndex(m, key) + 1] IN
    IF ~bucket.alloc THEN default
    ELSE LET v == LLFind(bucket.nodes, key)
         IN IF v = None THEN default ELSE v

HContains(m, key) ==
    LET bucket == m.buckets[BucketIndex(m, key) + 1] IN
    IF bucket.alloc THEN LLFind(bucket.nodes, key) # None ELSE FALSE

\* HDelete that forgets to decrement the size
HDelete_KeepSize(m, key) ==
    LET idx == BucketIndex(m, key)
        bucket == m.buckets[idx + 1]
        r == LLDelete(bucket.nodes, key)
    IN IF bucket.alloc /\ r.deleted
       THEN [m |-> [m EXCEPT !.buckets[idx + 1].nodes = r.nodes], ret |-> TRUE]
       ELSE [m |-> m, ret |-> FALSE]

\* HDelete that unlinks the whole chain of the bucket
HDelete_DropsChain(m, key) ==
    LET idx == BucketIndex(m, key)
        bucket == m.buckets[idx + 1]
        r == LLDelete(bucket.nodes, key)
    IN IF bucket.alloc /\ r.deleted
       THEN [m |-> [m EXCEPT !.buckets[idx + 1].nodes = <<>>,
                             !.size = m.size - 1],
             ret |-> TRUE]
       ELSE [m |-> m, ret |-> FALSE]

HDelete(m, key) ==
    LET idx == BucketIndex(m, key)
        bucket == m.buckets[idx + 1]
        r == LLDelete(bucket.nodes, key)
    IN IF bucket.alloc /\ r.deleted
       THEN [m |-> [m EXCEPT !.buckets[idx + 1].nodes = r.nodes,
                             !.size = m.size - 1],
             ret |-> TRUE]
       ELSE [m |-> m, ret |-> FALSE]

HLen(m) == m.size

\* while self._cap < needed_capacity: self._cap *= 2
RECURSIVE GrowTo(_, _)
GrowTo(c, needed) == IF c < needed THEN GrowTo(c * 2, needed) ELSE c

\* for k, v in items: self.set(k, v)
RECURSIVE SetAll(_, _, _)
SetAll(m, items, i) ==
    IF i > Len(items) THEN m
    ELSE SetAll(HSet(m, items[i][1], items[i][2]), items, i + 1)

\* int(len(items) / load) + 1, on the exact fraction
NeededCapacity(m, items) == (Len(items) * m.load[2]) \div m.load[1] + 1

HBulkSet(m, items) ==
    LET needed == NeededCapacity(m, items)
        m1 == IF needed > m.cap
              THEN LET c == GrowTo(m.cap, needed)
                   IN [m EXCEPT !.cap = c,
                                !.buckets = [i \in 1..c |-> NoBucket],
                                !.size = 0]
              ELSE m
    IN SetAll(m1, items, 1)

\* ----------------------------------------------------------------------
\* Dictionary (dictionary.py): a facade over one HashMap().  An optional
\* positional argument is <<>> for None and <<it>> for an iterable it.
\* ----------------------------------------------------------------------
Sentinel == "sentinel"
DefaultCapacity == 16
DefaultLoadFactor == <<3, 4>>

DictInit(itOpt, kwargs) ==
    LET m0 == HashMapInit(DefaultCapacity, DefaultLoadFactor)
        m1 == IF Len(itOpt) # 0 THEN HBulkSet(m0, itOpt[1]) ELSE m0
    IN IF Len(kwargs) # 0 THEN HBulkSet(m1, kwargs) ELSE m1

DictGetItem(m, key) ==
    LET val == HGet(m, key, Sentinel) IN
    IF val = Sentinel THEN "KeyError" ELSE val

DictContains(m, key) == HContains(m, key)

DictLen(m) == HLen(m)

\* ----------------------------------------------------------------------
\* MinHeap (heap.py).  The list _data is a sequence; index idx of the
\* code (0-based) is position idx + 1 of the sequence.
\* ----------------------------------------------------------------------
HeapVals == 1..MaxHeapVal
HeapInputs == UNION {[1..n -> HeapVals] : n \in 0..MaxHeapLen}

Swap(d, i, j) == [d EXCEPT ![i + 1] = d[j + 1], ![j + 1] = d[i + 1]]

RECURSIVE SiftUp(_, _)
SiftUp(d, idx) ==
    IF idx > 0
    THEN LET parent == (idx - 1) \div 2 IN
         IF d[parent + 1] <= d[idx + 1] THEN d
         ELSE SiftUp(Swap(d, parent, idx), parent)
    ELSE d

RECURSIVE SiftDown(_, _)
SiftDown(d, idx) ==
    LET n == Len(d)
        left == 2 * idx + 1
        right == 2 * idx + 2
        s1 == IF left < n /\ d[left + 1] < d[idx + 1] THEN left ELSE idx
        smallest == IF right < n /\ d[right + 1] < d[s1 + 1] THEN right ELSE s1
    IN IF smallest = idx THEN d
       ELSE SiftDown(Swap(d, idx, smallest), smallest)

\* for i in reversed(range(n // 2)): self._sift_down(i)
RECURSIVE HeapifyFrom(_, _)
HeapifyFrom(d, i) ==
    IF i < 0 THEN d ELSE HeapifyFrom(SiftDown(d, i), i - 1)

\* Heapify that sifts only the root down
Heapify_OnlyRoot(d) == IF Len(d) > 1 THEN SiftDown(d, 0) ELSE d

Heapify(d) == HeapifyFrom(d, (Len(d) \div 2) - 1)

MinHeapInit(it) == IF Len(it) # 0 THEN Heapify(it) ELSE <<>>

HeapPush(d, item) == SiftUp(Append(d, item), Len(d))

\* HeapPop that drops the last element instead of moving it to the root
HeapPop_DropsLast(d) ==
    IF Len(d) = 0 THEN [data |-> d, ret |-> <<"IndexError">>]
    ELSE [data |-> SubSeq(d, 1, Len(d) - 1), ret |-> <<"ok", d[1]>>]

\* HeapPop that returns None on an empty heap instead of raising
HeapPop_EmptyNone(d) ==
    IF Len(d) = 0 THEN [data |-> d, ret |-> <<"None">>]
    ELSE LET top == d[1]
             lastItem == d[Len(d)]
             rest == SubSeq(d, 1, Len(d) - 1)
         IN [data |-> IF Len(rest) # 0
                      THEN SiftDown([rest EXCEPT ![1] = lastItem], 0)
                      ELSE rest,
             ret |-> <<"ok", top>>]

\* HeapPop that moves the last element to the root and leaves it there
HeapPop_NoSift(d) ==
    IF Len(d) = 0 THEN [data |-> d, ret |-> <<"IndexError">>]
    ELSE LET top == d[1]
             lastItem == d[Len(d)]
             rest == SubSeq(d, 1, Len(d) - 1)
         IN [data |-> IF Len(rest) # 0 THEN [rest EXCEPT ![1] = lastItem] ELSE rest,
             ret |-> <<"ok", top>>]

HeapPop(d) ==
    IF Len(d) = 0 THEN [data |-> d, ret |-> <<"IndexError">>]
    ELSE LET top == d[1]
             lastItem == d[Len(d)]
             rest == SubSeq(d, 1, Len(d) - 1)
         IN [data |-> IF Len(rest) # 0
                      THEN SiftDown([rest EXCEPT ![1] = lastItem], 0)
                      ELSE rest,
             ret |-> <<"ok", top>>]

HeapPeek(d) == IF Len(d) # 0 THEN <<"ok", d[1]>> ELSE <<"None">>

\* HeapReplace that keeps the old root when the new item is smaller
HeapReplace_KeepsSmaller(d, item) ==
    IF Len(d) = 0 THEN [data |-> d, ret |-> <<"IndexError">>]
    ELSE IF item < d[1] THEN [data |-> d, ret |-> <<"ok", item>>]
    ELSE [data |-> SiftDown([d EXCEPT ![1] = item], 0), ret |-> <<"ok", d[1]>>]

\* HeapReplace that overwrites the root and leaves it there
HeapReplace_NoSift(d, item) ==
    IF Len(d) = 0 THEN [data |-> d, ret |-> <<"IndexError">>]
    ELSE [data |-> [d EXCEPT ![1] = item], ret |-> <<"ok", d[1]>>]

HeapReplace(d, item) ==
    IF Len(d) = 0 THEN [data |-> d, ret |-> <<"IndexError">>]
    ELSE [data |-> SiftDown([d EXCEPT ![1] = item], 0), ret |-> <<"ok", d[1]>>]

\* HeapPushPop that returns the item it was given after the swap
HeapPushPop_ReturnsItem(d, item) ==
    IF Len(d) # 0 /\ d[1] < item
    THEN [data |-> SiftDown([d EXCEPT ![1] = item], 0), ret |-> <<"ok", item>>]
    ELSE [data |-> d, ret |-> <<"ok", item>>]

\* HeapPushPop that swaps whenever the heap is not empty
HeapPushPop_AlwaysSwaps(d, item) ==
    IF Len(d) # 0
    THEN [data |-> SiftDown([d EXCEPT ![1] = item], 0), ret |-> <<"ok", d[1]>>]
    ELSE [data |-> d, ret |-> <<"ok", item>>]

HeapPushPop(d, item) ==
    IF Len(d) # 0 /\ d[1] < item
    THEN [data |-> SiftDown([d EXCEPT ![1] = item], 0), ret |-> <<"ok", d[1]>>]
    ELSE [data |-> d, ret |-> <<"ok", item>>]

\* ----------------------------------------------------------------------
\* State shared by the specifications
\* ----------------------------------------------------------------------
\* The HashMap object held in the state variables
Map == [cap |-> cap, load |-> load, buckets |-> buckets, size |-> size]

Store(m) ==
    /\ cap' = m.cap
    /\ load' = m.load
    /\ buckets' = m.buckets
    /\ size' = m.size

\* ----------------------------------------------------------------------
\* CustomList (custom_list.py).  A list object is a record
\* [buf, size, capacity]; slot i of the ctypes buffer is buf[i + 1].
\* A call yields [l |-> the list afterwards, ret |-> what it returned]:
\* ret is <<"ok", x>>, <<"None">>, <<"IndexError">> or <<"ValueError">>.
\* ----------------------------------------------------------------------
MaxListLen == 9

\* appends to a list shorter than this choose among ListVals; longer lists
\* are extended with one value only
MaxVaried == 4

ListVals == {1, 2}

\* Python's None as an element of the buffer
ListNone == 0

\* a py_object slot of a fresh ctypes array, never assigned
Null == -1

InitialCapacity == 4

MakeArray(capacity) ==
    [i \in 1..(IF capacity <= 0 THEN 1 ELSE capacity) |-> Null]

LResize(l, new_capacity) ==
    IF new_capacity < l.size
    THEN [l |-> l, ret |-> <<"ValueError">>]
    ELSE LET fresh == MakeArray(new_capacity)
             new_buf == [i \in 1..Len(fresh) |->
                            IF i <= l.size THEN l.buf[i] ELSE fresh[i]]
         IN  [l |-> [buf |-> new_buf, size |-> l.size,
                     capacity |-> new_capacity],
              ret |-> <<"None">>]

GrowIfFull(l) ==
    IF l.size >= l.capacity
    THEN LResize(l, IF l.capacity > 0 THEN l.capacity * 2
                    ELSE InitialCapacity)
    ELSE [l |-> l, ret |-> <<"None">>]

NormalizeIndex_Clamp(idx, sz) ==
    LET i == IF idx < 0 THEN idx + sz ELSE idx IN
    IF sz = 0 THEN <<"IndexError">>
    ELSE IF i < 0 THEN <<"ok", 0>>
    ELSE IF i >= sz THEN <<"ok", sz - 1>>
    ELSE <<"ok", i>>

\* <<"ok", i>> with i in [0, size), or the IndexError raised
NormalizeIndex(idx, sz) ==
    LET i == IF idx < 0 THEN idx + sz ELSE idx IN
    IF i < 0 \/ i >= sz THEN <<"IndexError">> ELSE <<"ok", i>>

LAppend(l, value) ==
    LET g == GrowIfFull(l) IN
    IF g.ret # <<"None">>
    THEN g
    ELSE [l |-> [g.l EXCEPT !.buf[g.l.size + 1] = value, !.size = @ + 1],
          ret |-> <<"None">>]

RECURSIVE LExtend(_, _)
LExtend(l, it) ==
    IF it = <<>> THEN l ELSE LExtend(LAppend(l, Head(it)).l, Tail(it))

CustomListInit(it) ==
    LExtend([buf |-> MakeArray(InitialCapacity), size |-> 0,
             capacity |-> InitialCapacity], it)

ShrinkIfSparse_ToFit(l) ==
    IF l.capacity > InitialCapacity /\ l.size <= l.capacity \div 4
    THEN LResize(l, l.size)
    ELSE [l |-> l, ret |-> <<"None">>]

ShrinkIfSparse_ToInitial(l) ==
    IF l.capacity > InitialCapacity /\ l.size <= l.capacity \div 4
    THEN LResize(l, InitialCapacity)
    ELSE [l |-> l, ret |-> <<"None">>]

ShrinkIfSparse_AtHalf(l) ==
    IF l.capacity > InitialCapacity /\ l.size <= l.capacity \div 2
    THEN LResize(l, IF InitialCapacity >= l.capacity \div 2
                    THEN InitialCapacity ELSE l.capacity \div 2)
    ELSE [l |-> l, ret |-> <<"None">>]

\* the shrink step that ends pop and remove_optimized
ShrinkIfSparse(l) ==
    IF l.capacity > InitialCapacity /\ l.size <= l.capacity \div 4
    THEN LResize(l, IF InitialCapacity >= l.capacity \div 2
                    THEN InitialCapacity ELSE l.capacity \div 2)
    ELSE [l |-> l, ret |-> <<"None">>]

LPop_SwapWithLast(l, idx) ==
    IF l.size = 0
    THEN [l |-> l, ret |-> <<"IndexError">>]
    ELSE LET n == NormalizeIndex(idx, l.size) IN
         IF n[1] # "ok"
         THEN [l |-> l, ret |-> n]
         ELSE LET moved == [l.buf EXCEPT ![n[2] + 1] = l.buf[l.size]]
                  s == ShrinkIfSparse(
                          [l EXCEPT !.buf = [moved EXCEPT ![l.size] = ListNone],
                                    !.size = @ - 1])
              IN  [l |-> s.l, ret |-> <<"ok", l.buf[n[2] + 1]>>]

LPop(l, idx) ==
    IF l.size = 0
    THEN [l |-> l, ret |-> <<"IndexError">>]
    ELSE LET n == NormalizeIndex(idx, l.size) IN
         IF n[1] # "ok"
         THEN [l |-> l, ret |-> n]
         ELSE LET i == n[2]
                  val == l.buf[i + 1]
                  shifted == [k \in 1..Len(l.buf) |->
                                 IF k = l.size THEN ListNone
                                 ELSE IF k > i /\ k < l.size THEN l.buf[k + 1]
                                 ELSE l.buf[k]]
                  s == ShrinkIfSparse([l EXCEPT !.buf = shifted,
                                                !.size = @ - 1])
              IN  [l |-> s.l,
                   ret |-> IF s.ret = <<"None">> THEN <<"ok", val>>
                           ELSE s.ret]

\* the indices the scan of remove / remove_optimized stops at
LMatches(l, value) == {i \in 0..(l.size - 1) : l.buf[i + 1] = value}

LFirstMatch_Last(l, value) ==
    CHOOSE i \in LMatches(l, value) : \A j \in LMatches(l, value) : i >= j

LFirstMatch(l, value) ==
    CHOOSE i \in LMatches(l, value) : \A j \in LMatches(l, value) : i <= j

LRemove(l, value) ==
    IF LMatches(l, value) = {}
    THEN [l |-> l, ret |-> <<"ValueError">>]
    ELSE LET p == LPop(l, LFirstMatch(l, value)) IN
         [l |-> p.l,
          ret |-> IF p.ret[1] = "ok" THEN <<"None">> ELSE p.ret]

LRemoveOptimized_Shifts(l, value) == LRemove(l, value)

LRemoveOptimized(l, value) ==
    IF LMatches(l, value) = {}
    THEN [l |-> l, ret |-> <<"ValueError">>]
    ELSE LET i == LFirstMatch(l, value)
             moved == [l.buf EXCEPT ![i + 1] = l.buf[l.size]]
             cleared == [moved EXCEPT ![l.size] = ListNone]
         IN  ShrinkIfSparse([l EXCEPT !.buf = cleared, !.size = @ - 1])

LClear_Shrinks(l) ==
    [l |-> [buf |-> MakeArray(InitialCapacity), size |-> 0,
            capacity |-> InitialCapacity],
     ret |-> <<"None">>]

LClear(l) ==
    [l |-> [l EXCEPT !.buf = [k \in 1..Len(l.buf) |->
                                 IF k <= l.size THEN ListNone ELSE l.buf[k]],
                     !.size = 0],
     ret |-> <<"None">>]

LGet_NoNegative(l, idx, default) ==
    [l |-> l,
     ret |-> IF idx < 0 \/ idx >= l.size THEN <<"ok", default>>
             ELSE <<"ok", l.buf[idx + 1]>>]

\* reading a slot that was never assigned raises ValueError in ctypes,
\* which the except clause of get does not catch
LGet(l, idx, default) ==
    LET n == NormalizeIndex(idx, l.size) IN
    [l |-> l,
     ret |-> IF n[1] # "ok" THEN <<"ok", default>>
             ELSE IF l.buf[n[2] + 1] = Null THEN <<"ValueError">>
             ELSE <<"ok", l.buf[n[2] + 1]>>]

LLen(l) == l.size

\* A specification that does not use the list leaves CustomList().
NoList ==
    /\ lbuf = CustomListInit(<<>>).buf
    /\ lsize = 0
    /\ lcapacity = InitialCapacity
    /\ ref = <<>>
    /\ llast = "init"
    /\ lret = <<"None">>
    /\ lcaps = <<InitialCapacity, InitialCapacity>>

\* ----------------------------------------------------------------------
\* Data access layer (data_access_layer.py) over the tables products and
\* purchase_orders.  A database is a record [products, pos] of row
\* sequences, the id of a row being its position (lastrowid); a product
\* row is [sku, quantity], a purchase-order row is
\* [product_id, quantity, status].  The columns are those the SQL
\* statements of the module name; the audit log, the sales table and the
\* column items_sold_count are written but never read by these functions
\* and are left out.  A call
\* yields [db, ret, received]: received is the id of the purchase order
\* whose stock the call added to a product, or 0.
\* ----------------------------------------------------------------------
MaxQty == 3
MaxPOs == 2

Skus == {"A", "B"}

\* quantities and deltas passed to the calls
QtyInputs == (0 - 2)..2

\* qty_received=None: receive the full quantity of the purchase order
FullQty == 99

\* SELECT ... FROM products WHERE sku = ?: the id of the row, or 0
RowBySku(db, sku) ==
    IF \E i \in 1..Len(db.products) : db.products[i].sku = sku
    THEN CHOOSE i \in 1..Len(db.products) : db.products[i].sku = sku
    ELSE 0

Raise(db) == [db |-> db, ret |-> <<"ValueError">>, received |-> 0]

Done(db) == [db |-> db, ret |-> <<"None">>, received |-> 0]

CreateProduct(db, sku, quantity) ==
    [db |-> [db EXCEPT !.products =
                Append(@, [sku |-> sku, quantity |-> quantity])],
     ret |-> <<"ok", Len(db.products) + 1>>,
     received |-> 0]

SetQuantity(db, sku, qty) ==
    IF qty < 0 THEN Raise(db)
    ELSE Done([db EXCEPT !.products =
                 [i \in 1..Len(@) |->
                     IF @[i].sku = sku THEN [@[i] EXCEPT !.quantity = qty]
                     ELSE @[i]]])

AdjustQuantity(db, sku, delta) ==
    Done([db EXCEPT !.products =
            [i \in 1..Len(@) |->
                IF @[i].sku = sku THEN [@[i] EXCEPT !.quantity = @ + delta]
                ELSE @[i]]])

RecordSale(db, sku, qty) ==
    LET id == RowBySku(db, sku) IN
    IF id = 0 THEN Raise(db)
    ELSE IF qty <= 0 THEN Raise(db)
    ELSE IF db.products[id].quantity < qty THEN Raise(db)
    ELSE Done([db EXCEPT !.products[id].quantity = @ - qty])

RecordReturn(db, sku, qty) ==
    IF qty <= 0 THEN Raise(db)
    ELSE LET id == RowBySku(db, sku) IN
         IF id = 0 THEN Raise(db)
         ELSE Done([db EXCEPT !.products[id].quantity = @ + qty])

CreatePo(db, product_id, qty) ==
    IF qty <= 0 THEN Raise(db)
    ELSE [db |-> [db EXCEPT !.pos =
                     Append(@, [product_id |-> product_id, quantity |-> qty,
                                status |-> "draft"])],
          ret |-> <<"ok", Len(db.pos) + 1>>,
          received |-> 0]

\* ReceivePo without the check of the status
ReceivePo_AnyStatus(db, po_id, qty_received) ==
    IF po_id \notin 1..Len(db.pos) THEN Raise(db)
    ELSE LET product_id == db.pos[po_id].product_id
             qty == IF qty_received = FullQty THEN db.pos[po_id].quantity
                    ELSE qty_received
         IN  IF qty <= 0 THEN Raise(db)
             ELSE [db |-> [db EXCEPT
                              !.products =
                                  [i \in 1..Len(@) |->
                                      IF i = product_id
                                      THEN [@[i] EXCEPT !.quantity = @ + qty]
                                      ELSE @[i]],
                              !.pos[po_id].status = "received"],
                   ret |-> <<"None">>,
                   received |-> po_id]

ReceivePo(db, po_id, qty_received) ==
    IF po_id \notin 1..Len(db.pos) THEN Raise(db)
    ELSE IF db.pos[po_id].status = "received" THEN Raise(db)
    ELSE LET product_id == db.pos[po_id].product_id
             qty == IF qty_received = FullQty THEN db.pos[po_id].quantity
                    ELSE qty_received
         IN  IF qty <= 0 THEN Raise(db)
             ELSE [db |-> [db EXCEPT
                              !.products =
                                  [i \in 1..Len(@) |->
                                      IF i = product_id
                                      THEN [@[i] EXCEPT !.quantity = @ + qty]
                                      ELSE @[i]],
                              !.pos[po_id].status = "received"],
                   ret |-> <<"None">>,
                   received |-> po_id]

\* A specification that does not use the chain leaves LinkedList().
NoChain ==
    /\ chain = <<>>
    /\ born = <<>>
    /\ clast = "init"
    /\ cret = <<"None">>

\* A specification that does not use the database leaves it empty.
NoDao ==
    /\ products = <<>>
    /\ pos = <<>>
    /\ receipts = <<>>
    /\ dlast = "init"
    /\ dret = <<"None">>

\* A specification that does not use the heaps leaves them empty.
NoHeap ==
    /\ data = <<>>
    /\ hlast = <<"init", 0>>
    /\ hret = <<"None">>
    /\ twin = <<>>
    /\ todo = <<>>
    /\ pushed = <<>>
    /\ out = <<>>
    /\ twinOut = <<>>

\* A specification that does not use the map leaves a default HashMap().
NoMap ==
    /\ seed = 1
    /\ LET m == HashMapInit(DefaultCapacity, DefaultLoadFactor) IN
          /\ cap = m.cap
          /\ load = m.load
          /\ buckets = m.buckets
          /\ size = m.size
          /\ cap0 = m.cap
    /\ present = [k \in Keys |-> Absent]
    /\ last = <<"init", 0>>
    /\ ret = None

\* the pairs yielded by items() contain key
InItems(m, key) == \E i \in 1..Len(HItems(m)) : HItems(m)[i][1] = key

\* number of keys of the reference map
NumPresent == Cardinality({k \in DOMAIN present : present[k] # Absent})

\* reference semantics of inserting pairs in order
RECURSIVE RefSetAll(_, _, _)
RefSetAll(p, items, i) ==
    IF i > Len(items) THEN p
    ELSE RefSetAll([p EXCEPT ![items[i][1]] = items[i][2]], items, i + 1)

\* ----------------------------------------------------------------------
\* HashMap under set / get / contains / delete
\* ----------------------------------------------------------------------
\* HashMap(capacity, load_factor) for a capacity of caps and a load factor of lfs
NewMap(caps, lfs) ==
    /\ seed \in HashSeeds
    /\ \E c \in caps, lf \in lfs :
          LET m == HashMapInit(c, lf) IN
          /\ cap = m.cap
          /\ load = m.load
          /\ buckets = m.buckets
          /\ size = m.size
          /\ cap0 = m.cap
    /\ present = [k \in Keys |-> Absent]
    /\ last = <<"init", 0>>
    /\ ret = None

InitMap == NewMap(InitCaps, LoadFactors) /\ NoHeap /\ NoList /\ NoChain /\ NoDao

Set(k, v) ==
    /\ Store(HSet(Map, k, v))
    /\ present' = [present EXCEPT ![k] = v]
    /\ last' = <<"set", k>>
    /\ ret' = None
    /\ UNCHANGED <<seed, cap0, heapVars, drainVars, listVars, chainVars, daoVars>>

Get(k) ==
    /\ ret' = HGet(Map, k, None)
    /\ last' = <<"get", k>>
    /\ UNCHANGED <<seed, cap, load, buckets, size, cap0, present, heapVars, drainVars, listVars, chainVars, daoVars>>

Contains(k) ==
    /\ ret' = IF HContains(Map, k) THEN "True" ELSE "False"
    /\ last' = <<"contains", k>>
    /\ UNCHANGED <<seed, cap, load, buckets, size, cap0, present, heapVars, drainVars, listVars, chainVars, daoVars>>

Delete(k) ==
    /\ LET r == HDelete(Map, k) IN
          /\ Store(r.m)
          /\ ret' = IF r.ret THEN "True" ELSE "False"
    /\ present' = [present EXCEPT ![k] = Absent]
    /\ last' = <<"delete", k>>
    /\ UNCHANGED <<seed, cap0, heapVars, drainVars, listVars, chainVars, daoVars>>

NextMap ==
    \/ \E k \in Keys, v \in Values : Set(k, v)
    \/ \E k \in Keys : Get(k)
    \/ \E k \in Keys : Contains(k)
    \/ \E k \in Keys : Delete(k)

SpecMap == InitMap /\ [][NextMap]_vars

\* HashMap under set and delete alone
NextSetDelete ==
    \/ \E k \in Keys, v \in Values : Set(k, v)
    \/ \E k \in Keys : Delete(k)

SpecSetDelete == InitMap /\ [][NextSetDelete]_vars

\* ----------------------------------------------------------------------
\* HashMap under set / delete / bulk_set
\* ----------------------------------------------------------------------
MaxBulk == 2
BulkValues == {"v1", "v2"}
BulkLoadFactors == {<<3, 4>>, <<1, 2>>}
\* lists of pairs over two keys; the i-th pair carries "v1" for odd i and
\* "v2" for even i, so a key that occurs twice occurs with two values
BulkPairs(ks) == [i \in 1..Len(ks) |-> <<ks[i], IF i % 2 = 1 THEN "v1" ELSE "v2">>]
BulkKeys == {1, 2}
BulkInputs == {BulkPairs(ks) : ks \in UNION {[1..n -> BulkKeys] : n \in 0..MaxBulk}}

BulkSet(pairs) ==
    /\ Store(HBulkSet(Map, pairs))
    /\ present' = RefSetAll(present, pairs, 1)
    /\ last' = <<"bulk_set", Len(pairs)>>
    /\ ret' = None
    /\ UNCHANGED <<seed, cap0, heapVars, drainVars, listVars, chainVars, daoVars>>

NextBulk ==
    \/ \E k \in Keys, v \in BulkValues : Set(k, v)
    \/ \E k \in Keys : Delete(k)
    \/ \E pairs \in BulkInputs : BulkSet(pairs)

InitBulk == NewMap(InitCaps, BulkLoadFactors) /\ NoHeap /\ NoList /\ NoChain /\ NoDao

SpecBulk == InitBulk /\ [][NextBulk]_vars

\* ----------------------------------------------------------------------
\* Dictionary: Dictionary(), then at most one Dictionary(it, **kwargs),
\* then d[k] = v, d[k] and k in d
\* ----------------------------------------------------------------------
MaxPos == 1
DictSeeds == {1, 4}
DictKeys == Keys \cup 2..(MaxKwargs + 1)
\* the positional argument: None, or a list of at most MaxPos pairs
PosInputs ==
    {<<>>} \cup {<<it>> : it \in UNION {[1..n -> Keys \X {"v1"}] : n \in 0..MaxPos}}
\* n keyword arguments, on the keys 2 .. n + 1
Kwargs(n) == [i \in 1..n |-> <<i + 1, "v2">>]

InitDict ==
    /\ NoList
    /\ NoChain
    /\ NoDao
    /\ seed \in DictSeeds
    /\ LET m == DictInit(<<>>, <<>>) IN
          /\ cap = m.cap
          /\ load = m.load
          /\ buckets = m.buckets
          /\ size = m.size
          /\ cap0 = m.cap
    /\ present = [k \in DictKeys |-> Absent]
    /\ last = <<"init", 0>>
    /\ ret = None
    /\ NoHeap

DictNew(itOpt, kwargs) ==
    /\ last[1] = "init"
    /\ Store(DictInit(itOpt, kwargs))
    /\ present' = RefSetAll(RefSetAll([k \in DictKeys |-> Absent],
                                      IF Len(itOpt) # 0 THEN itOpt[1] ELSE <<>>, 1),
                            kwargs, 1)
    /\ last' = <<"new", Len(kwargs)>>
    /\ ret' = None
    /\ UNCHANGED <<seed, cap0, heapVars, drainVars, listVars, chainVars, daoVars>>

SetItem(k, v) ==
    /\ Store(HSet(Map, k, v))
    /\ present' = [present EXCEPT ![k] = v]
    /\ last' = <<"setitem", k>>
    /\ ret' = None
    /\ UNCHANGED <<seed, cap0, heapVars, drainVars, listVars, chainVars, daoVars>>

GetItem(k) ==
    /\ ret' = DictGetItem(Map, k)
    /\ last' = <<"getitem", k>>
    /\ UNCHANGED <<seed, cap, load, buckets, size, cap0, present, heapVars, drainVars, listVars, chainVars, daoVars>>

In(k) ==
    /\ ret' = IF DictContains(Map, k) THEN "True" ELSE "False"
    /\ last' = <<"in", k>>
    /\ UNCHANGED <<seed, cap, load, buckets, size, cap0, present, heapVars, drainVars, listVars, chainVars, daoVars>>

NextDict ==
    \/ \E itOpt \in PosInputs, n \in 0..MaxKwargs : DictNew(itOpt, Kwargs(n))
    \/ \E k \in Keys, v \in Values : SetItem(k, v)
    \/ \E k \in Keys : GetItem(k)
    \/ \E k \in Keys : In(k)

SpecDict == InitDict /\ [][NextDict]_vars

\* ----------------------------------------------------------------------
\* MinHeap under push / pop / peek / replace / pushpop, constructed from
\* an arbitrary iterable
\* ----------------------------------------------------------------------
NoDrain ==
    /\ twin = <<>>
    /\ todo = <<>>
    /\ pushed = <<>>
    /\ out = <<>>
    /\ twinOut = <<>>

InitHeap ==
    /\ NoMap
    /\ NoList
    /\ NoChain
    /\ NoDao
    /\ \E it \in HeapInputs : data = MinHeapInit(it)
    /\ hlast = <<"init", 0>>
    /\ hret = <<"None">>
    /\ NoDrain

Push(item) ==
    /\ Len(data) < MaxHeapLen
    /\ data' = HeapPush(data, item)
    /\ hlast' = <<"push", item>>
    /\ hret' = <<"None">>
    /\ UNCHANGED <<mapVars, drainVars, listVars, chainVars, daoVars>>

Pop ==
    /\ LET r == HeapPop(data) IN
          /\ data' = r.data
          /\ hret' = r.ret
    /\ hlast' = <<"pop", 0>>
    /\ UNCHANGED <<mapVars, drainVars, listVars, chainVars, daoVars>>

Peek ==
    /\ hret' = HeapPeek(data)
    /\ hlast' = <<"peek", 0>>
    /\ UNCHANGED <<mapVars, data, drainVars, listVars, chainVars, daoVars>>

Replace(item) ==
    /\ LET r == HeapReplace(data, item) IN
          /\ data' = r.data
          /\ hret' = r.ret
    /\ hlast' = <<"replace", item>>
    /\ UNCHANGED <<mapVars, drainVars, listVars, chainVars, daoVars>>

PushPop(item) ==
    /\ LET r == HeapPushPop(data, item) IN
          /\ data' = r.data
          /\ hret' = r.ret
    /\ hlast' = <<"pushpop", item>>
    /\ UNCHANGED <<mapVars, drainVars, listVars, chainVars, daoVars>>

NextHeap ==
    \/ \E item \in HeapVals : Push(item)
    \/ Pop
    \/ Peek
    \/ \E item \in HeapVals : Replace(item)
    \/ \E item \in HeapVals : PushPop(item)

SpecHeap == InitHeap /\ [][NextHeap]_vars

\* ----------------------------------------------------------------------
\* Two heaps over the same elements: data is filled by pushes in some
\* order and then popped until empty; twin is bulk-built by the
\* constructor and popped until empty.
\* ----------------------------------------------------------------------
Count(s, x) == Cardinality({i \in 1..Len(s) : s[i] = x})
SameBag(s, t) == \A x \in HeapVals : Count(s, x) = Count(t, x)
NonDecreasing(s) == \A i \in 1..(Len(s) - 1) : s[i] <= s[i + 1]

InitDrain ==
    /\ NoMap
    /\ NoList
    /\ NoChain
    /\ NoDao
    /\ data = MinHeapInit(<<>>)
    /\ \E arr \in HeapInputs, order \in HeapInputs :
          /\ Len(order) = Len(arr)
          /\ SameBag(order, arr)
          /\ twin = MinHeapInit(arr)
          /\ todo = order
    /\ pushed = <<>>
    /\ out = <<>>
    /\ twinOut = <<>>
    /\ hlast = <<"init", 0>>
    /\ hret = <<"None">>

DrainPush ==
    /\ Len(todo) > 0
    /\ data' = HeapPush(data, Head(todo))
    /\ pushed' = Append(pushed, Head(todo))
    /\ todo' = Tail(todo)
    /\ hlast' = <<"push", Head(todo)>>
    /\ hret' = <<"None">>
    /\ UNCHANGED <<mapVars, listVars, twin, out, twinOut, chainVars, daoVars>>

\* while len(heap) > 0: heap.pop()
DrainPop ==
    /\ Len(todo) = 0
    /\ Len(data) > 0
    /\ LET r == HeapPop(data) IN
          /\ data' = r.data
          /\ hret' = r.ret
          /\ out' = Append(out, r.ret[2])
    /\ hlast' = <<"pop", 0>>
    /\ UNCHANGED <<mapVars, listVars, twin, todo, pushed, twinOut, chainVars, daoVars>>

TwinPop ==
    /\ Len(twin) > 0
    /\ LET r == HeapPop(twin) IN
          /\ twin' = r.data
          /\ hret' = r.ret
          /\ twinOut' = Append(twinOut, r.ret[2])
    /\ hlast' = <<"twinpop", 0>>
    /\ UNCHANGED <<mapVars, listVars, data, todo, pushed, out, chainVars, daoVars>>

NextDrain ==
    \/ DrainPush
    \/ DrainPop
    \/ TwinPop

SpecDrain == InitDrain /\ [][NextDrain]_vars

\* ----------------------------------------------------------------------
\* CustomList under append, pop, remove, remove_optimized and clear
\* ----------------------------------------------------------------------
List == [buf |-> lbuf, size |-> lsize, capacity |-> lcapacity]

LStore(r, op) ==
    /\ lbuf' = r.l.buf
    /\ lsize' = r.l.size
    /\ lcapacity' = r.l.capacity
    /\ lret' = r.ret
    /\ llast' = op
    /\ lcaps' = <<lcaps[2], lcapacity>>

\* the live elements, as the standard list holding the same values
Live == SubSeq(lbuf, 1, lsize)

InitList ==
    /\ NoMap
    /\ NoHeap
    /\ NoList
    /\ NoChain
    /\ NoDao

ListAppend(v) ==
    /\ lsize < MaxListLen
    /\ LStore(LAppend(List, v), "append")
    /\ UNCHANGED <<mapVars, heapVars, drainVars, ref, chainVars, daoVars>>

ListPop(idx) ==
    /\ LStore(LPop(List, idx), "pop")
    /\ UNCHANGED <<mapVars, heapVars, drainVars, ref, chainVars, daoVars>>

ListRemove(v) ==
    /\ LStore(LRemove(List, v), "remove")
    /\ UNCHANGED <<mapVars, heapVars, drainVars, ref, chainVars, daoVars>>

ListRemoveOptimized(v) ==
    /\ LStore(LRemoveOptimized(List, v), "remove_optimized")
    /\ UNCHANGED <<mapVars, heapVars, drainVars, ref, chainVars, daoVars>>

ListClear ==
    /\ LStore(LClear(List), "clear")
    /\ UNCHANGED <<mapVars, heapVars, drainVars, ref, chainVars, daoVars>>

\* every valid index of the current list and the invalid ones around them
PopIndices == (0 - (lsize + 2))..(lsize + 1)

\* the values the next append chooses among
AppendVals == IF lsize < MaxVaried THEN ListVals ELSE {1}

NextList ==
    \/ \E v \in AppendVals : ListAppend(v)
    \/ \E idx \in PopIndices : ListPop(idx)
    \/ \E v \in ListVals : ListRemove(v)
    \/ \E v \in ListVals : ListRemoveOptimized(v)
    \/ ListClear

SpecList == InitList /\ [][NextList]_vars

\* ----------------------------------------------------------------------
\* CustomList built by appends and read with get; ref is a standard list
\* receiving the same appends
\* ----------------------------------------------------------------------
GetDefaults == {ListNone, 9}

\* list[idx] of a standard list, for -len <= idx < len
PyIndex(s, idx) == IF idx < 0 THEN s[Len(s) + idx + 1] ELSE s[idx + 1]

RefAppend(v) ==
    /\ lsize < MaxListLen
    /\ LStore(LAppend(List, v), "append")
    /\ ref' = Append(ref, v)
    /\ UNCHANGED <<mapVars, heapVars, drainVars, chainVars, daoVars>>

ListGet(idx, default) ==
    /\ LStore(LGet(List, idx, default), "get")
    /\ UNCHANGED <<mapVars, heapVars, drainVars, ref, chainVars, daoVars>>

NextGet ==
    \/ \E v \in AppendVals : RefAppend(v)
    \/ \E idx \in PopIndices, d \in GetDefaults : ListGet(idx, d)

SpecGet == InitList /\ [][NextGet]_vars

\* ----------------------------------------------------------------------
\* CustomList under append, clear and get
\* ----------------------------------------------------------------------
NextClear ==
    \/ \E v \in AppendVals : ListAppend(v)
    \/ ListClear
    \/ \E idx \in PopIndices, d \in GetDefaults : ListGet(idx, d)

SpecClear == InitList /\ [][NextClear]_vars

\* ----------------------------------------------------------------------
\* LinkedList under insert_or_replace, find, delete and items
\* ----------------------------------------------------------------------
InitChain ==
    /\ NoMap
    /\ NoHeap
    /\ NoList
    /\ NoDao
    /\ NoChain

ChainInsertOrReplace(k, v) ==
    /\ LET r == LLInsertOrReplace(chain, k, v) IN
          /\ chain' = r.nodes
          /\ cret' = <<"ok", r.inserted>>
          /\ born' = IF r.inserted THEN <<k>> \o born ELSE born
    /\ clast' = "insert_or_replace"
    /\ UNCHANGED <<mapVars, heapVars, drainVars, listVars, daoVars>>

ChainFind(k) ==
    /\ cret' = <<"ok", LLFind(chain, k)>>
    /\ clast' = "find"
    /\ UNCHANGED <<mapVars, heapVars, drainVars, listVars, daoVars, chain, born>>

ChainDelete(k) ==
    /\ LET r == LLDelete(chain, k) IN
          /\ chain' = r.nodes
          /\ cret' = <<"ok", r.deleted>>
    /\ born' = SelectSeq(born, LAMBDA x : x # k)
    /\ clast' = "delete"
    /\ UNCHANGED <<mapVars, heapVars, drainVars, listVars, daoVars>>

ChainItems ==
    /\ cret' = <<"ok", LLItems(chain)>>
    /\ clast' = "items"
    /\ UNCHANGED <<mapVars, heapVars, drainVars, listVars, daoVars, chain, born>>

NextChain ==
    \/ \E k \in Keys, v \in Values : ChainInsertOrReplace(k, v)
    \/ \E k \in Keys : ChainFind(k)
    \/ \E k \in Keys : ChainDelete(k)
    \/ ChainItems

SpecChain == InitChain /\ [][NextChain]_vars

\* ----------------------------------------------------------------------
\* One product, created with a non-negative quantity, under the quantity
\* calls and the purchase-order calls of the data access layer
\* ----------------------------------------------------------------------
Db == [products |-> products, pos |-> pos]

DStore(r, op) ==
    /\ products' = r.db.products
    /\ pos' = r.db.pos
    /\ dret' = r.ret
    /\ dlast' = op
    /\ receipts' = [i \in 1..Len(r.db.pos) |->
                       (IF i <= Len(receipts) THEN receipts[i] ELSE 0)
                          + (IF r.received = i THEN 1 ELSE 0)]

\* counters stay within MaxQty
InRange(r) ==
    \A i \in 1..Len(r.db.products) :
       /\ r.db.products[i].quantity <= MaxQty
       /\ r.db.products[i].quantity >= 0 - MaxQty

InitDao ==
    /\ NoMap
    /\ NoHeap
    /\ NoList
    /\ NoChain
    /\ \E q \in 0..MaxQty :
          LET r == CreateProduct([products |-> <<>>, pos |-> <<>>], "A", q) IN
          /\ products = r.db.products
          /\ pos = r.db.pos
          /\ dret = r.ret
    /\ receipts = <<>>
    /\ dlast = "create_product"

DaoSetQuantity(sku, qty) ==
    /\ InRange(SetQuantity(Db, sku, qty))
    /\ DStore(SetQuantity(Db, sku, qty), "set_quantity")
    /\ UNCHANGED <<mapVars, heapVars, drainVars, listVars, chainVars>>

DaoAdjustQuantity(sku, delta) ==
    /\ InRange(AdjustQuantity(Db, sku, delta))
    /\ DStore(AdjustQuantity(Db, sku, delta), "adjust_quantity")
    /\ UNCHANGED <<mapVars, heapVars, drainVars, listVars, chainVars>>

DaoRecordSale(sku, qty) ==
    /\ InRange(RecordSale(Db, sku, qty))
    /\ DStore(RecordSale(Db, sku, qty), "record_sale")
    /\ UNCHANGED <<mapVars, heapVars, drainVars, listVars, chainVars>>

DaoRecordReturn(sku, qty) ==
    /\ InRange(RecordReturn(Db, sku, qty))
    /\ DStore(RecordReturn(Db, sku, qty), "record_return")
    /\ UNCHANGED <<mapVars, heapVars, drainVars, listVars, chainVars>>

DaoCreatePo(product_id, qty) ==
    /\ Len(pos) < MaxPOs
    /\ DStore(CreatePo(Db, product_id, qty), "create_po")
    /\ UNCHANGED <<mapVars, heapVars, drainVars, listVars, chainVars>>

DaoReceivePo(po_id, qty_received) ==
    /\ InRange(ReceivePo(Db, po_id, qty_received))
    /\ DStore(ReceivePo(Db, po_id, qty_received), "receive_po")
    /\ UNCHANGED <<mapVars, heapVars, drainVars, listVars, chainVars>>

\* ids of the purchase orders, and one id that no row has
PoIds == 1..(MaxPOs + 1)

NextDao ==
    \/ \E sku \in Skus, qty \in QtyInputs : DaoSetQuantity(sku, qty)
    \/ \E sku \in Skus, delta \in QtyInputs : DaoAdjustQuantity(sku, delta)
    \/ \E sku \in Skus, qty \in QtyInputs : DaoRecordSale(sku, qty)
    \/ \E sku \in Skus, qty \in QtyInputs : DaoRecordReturn(sku, qty)
    \/ \E qty \in QtyInputs : DaoCreatePo(1, qty)
    \/ \E po_id \in PoIds, qty \in QtyInputs \cup {FullQty} :
          DaoReceivePo(po_id, qty)

SpecDao == InitDao /\ [][NextDao]_vars

\* ======================================================================
\* Properties
\* ======================================================================

\* C1: after any sequence of set and delete calls, len() is the number of
\* keys currently present, items() yields exactly len() pairs, and each
\* present key occurs in exactly one pair, with its last-set value.
C1_LenAndItemsMatchKeys ==
    LET items == HItems(Map) IN
    /\ HLen(Map) = NumPresent
    /\ Len(items) = HLen(Map)
    /\ \A k \in Keys :
          present[k] # Absent =>
             /\ Cardinality({i \in 1..Len(items) : items[i][1] = k}) = 1
             /\ \E i \in 1..Len(items) : items[i] = <<k, present[k]>>

\* a key was deleted from a map that has been resized and still holds two keys
C1_Witness ==
    /\ last[1] = "delete"
    /\ ret = "True"
    /\ cap > cap0
    /\ size = 2
    /\ Len(HItems(Map)) = 2

\* C2: once sets have forced a resize, the capacity exceeds the initial
\* one, every key set so far is retrievable by get with its last-set
\* value, and len() is the number of distinct keys: a resize neither
\* loses, duplicates nor alters an entry.
C2_ResizeKeepsEntries ==
    /\ size * load[2] > load[1] * cap0 => cap > cap0
    /\ cap > cap0 =>
          /\ \A k \in Keys : present[k] # Absent => HGet(Map, k, None) = present[k]
          /\ HLen(Map) = NumPresent
          /\ Len(HItems(Map)) = NumPresent

\* a set has just doubled the capacity of a map holding several keys
C2_Witness ==
    /\ last[1] = "set"
    /\ cap = 2 * cap0
    /\ size >= 3
    /\ \E k \in Keys : present[k] = "v2" /\ HGet(Map, k, None) = "v2"

\* C3: size / capacity <= load_factor after every set call returns.
C3_LoadFactorBound ==
    last[1] = "set" => size * load[2] <= load[1] * cap

\* C4: bulk_set keeps every entry whose key is not among the pairs, and
\* maps every key of the pairs to its last value in the pairs, also when
\* it grows the capacity.
C4_BulkSetKeepsEntries ==
    [][\A pairs \in BulkInputs :
          BulkSet(pairs) =>
             LET given == RefSetAll([k \in Keys |-> Absent], pairs, 1) IN
             \A k \in Keys :
                IF given[k] # Absent
                THEN HGet(Map', k, None) = given[k]
                ELSE InItems(Map, k) =>
                        /\ InItems(Map', k)
                        /\ HGet(Map', k, None) = HGet(Map, k, None)]_vars

\* C5: after Dictionary(it, **kwargs) the dictionary holds every positional
\* pair and every keyword pair, a keyword value winning on an equal key,
\* and len() is the number of distinct keys.
C5_ConstructorHoldsAllPairs ==
    last[1] = "new" =>
       /\ \A k \in DictKeys :
             IF present[k] = Absent
             THEN ~InItems(Map, k)
             ELSE HGet(Map, k, Absent) = present[k]
       /\ DictLen(Map) = NumPresent

\* C6: d[key] raises KeyError if and only if key is absent from the map;
\* for a present key it returns the stored value, whatever it is.
C6_KeyErrorIffAbsent ==
    last[1] = "getitem" =>
       LET items == HItems(Map) IN
       /\ ret = "KeyError" <=> ~InItems(Map, last[2])
       /\ \A i \in 1..Len(items) : items[i][1] = last[2] => ret = items[i][2]

\* C7: contains(key) returns true exactly when key has been set and not
\* deleted since, whatever value is stored under it, and exactly when
\* items() yields a pair with that key.
C7_ContainsIffPresent ==
    last[1] = "contains" =>
       /\ ret = "True" <=> present[last[2]] # Absent
       /\ ret = "True" <=> InItems(Map, last[2])

\* C8: data[parent(i)] <= data[i] for every non-root index i, with
\* parent(i) = (i - 1) div 2, after construction from any iterable and
\* after every push, pop, replace and pushpop.
C8_HeapProperty ==
    \A i \in 1..(Len(data) - 1) : data[((i - 1) \div 2) + 1] <= data[i + 1]

\* a replace has sifted a new item down a full heap
C8_Witness ==
    /\ hlast[1] = "replace"
    /\ Len(data) = MaxHeapLen
    /\ hret[1] = "ok"
    /\ hret[2] < hlast[2]
    /\ data[1] < hlast[2]

\* C9: pushes followed by pops until the heap is empty: the popped
\* sequence is non-decreasing, and once the heap is empty it is a
\* permutation of the pushed values, with as many pops as pushes.
C9_DrainSorted ==
    /\ NonDecreasing(out)
    /\ (Len(todo) = 0 /\ Len(data) = 0) =>
          /\ Len(out) = Len(pushed)
          /\ SameBag(out, pushed)

\* a heap filled by pushes in non-sorted order has been popped until empty
C9_Witness ==
    /\ Len(todo) = 0
    /\ Len(data) = 0
    /\ Len(out) >= 3
    /\ out[1] < out[Len(out)]
    /\ ~NonDecreasing(pushed)

\* C10: a heap bulk-built by heapify and a heap filled by sequential pushes
\* of the same elements in any order yield identical full pop sequences.
C10_HeapifyMatchesPushes ==
    (Len(todo) = 0 /\ Len(data) = 0 /\ Len(twin) = 0) => out = twinOut

\* both heaps have been popped until empty, after pushes in non-sorted order
C10_Witness ==
    /\ Len(todo) = 0
    /\ Len(data) = 0
    /\ Len(twin) = 0
    /\ Len(twinOut) >= 3
    /\ twinOut[1] < twinOut[Len(twinOut)]
    /\ ~NonDecreasing(pushed)

\* s holds the elements of t and, in addition, one occurrence of x
BagPlus(s, t, x) ==
    \A y \in HeapVals : Count(s, y) = Count(t, y) + (IF y = x THEN 1 ELSE 0)

\* C11: pop on a non-empty heap returns a minimum element (what peek
\* returned just before), reduces len by exactly one, and leaves the
\* previous multiset minus one occurrence of the returned element.
C11_PopReturnsMinimum ==
    [][(Pop /\ Len(data) # 0) =>
          /\ hret'[1] = "ok"
          /\ hret' = HeapPeek(data)
          /\ \A i \in 1..Len(data) : hret'[2] <= data[i]
          /\ Len(data') = Len(data) - 1
          /\ BagPlus(data, data', hret'[2])]_vars

\* a pop has taken the minimum off a full heap of distinct-valued ends
C11_Witness ==
    /\ hlast[1] = "pop"
    /\ hret[1] = "ok"
    /\ Len(data) = MaxHeapLen - 1
    /\ hret[2] < data[1]
    /\ data[1] < data[Len(data)]

\* C12 (as stated): pushpop(item) on a non-empty heap returns the new item
\* after swapping it into the root when item is not smaller than the root,
\* and otherwise returns item and leaves the heap unmodified.
C12_PushPopReturnsNewItem ==
    [][\A item \in HeapVals :
          (PushPop(item) /\ Len(data) # 0) =>
             IF item >= data[1]
             THEN /\ hret' = <<"ok", item>>
                  /\ data' = SiftDown([data EXCEPT ![1] = item], 0)
             ELSE /\ hret' = <<"ok", item>>
                  /\ data' = data]_vars

\* C12 (amended): pushpop(item) on a non-empty heap whose root is smaller
\* than item puts item in the heap in place of the root and returns the
\* old root; otherwise it returns item and leaves the heap unmodified.
C12_PushPopReturnsOldRoot ==
    [][\A item \in HeapVals :
          (PushPop(item) /\ Len(data) # 0) =>
             IF data[1] < item
             THEN /\ hret' = <<"ok", data[1]>>
                  /\ Len(data') = Len(data)
                  /\ \E i \in 1..Len(data') : data'[i] = item
                  /\ \A y \in HeapVals :
                        Count(data', y) + (IF y = data[1] THEN 1 ELSE 0)
                           = Count(data, y) + (IF y = item THEN 1 ELSE 0)
             ELSE /\ hret' = <<"ok", item>>
                  /\ data' = data]_vars

\* a pushpop has returned a root smaller than the item it was given
C12_Witness ==
    /\ hlast[1] = "pushpop"
    /\ hret[1] = "ok"
    /\ hret[2] < hlast[2]
    /\ Len(data) >= 3
    /\ \E i \in 2..Len(data) : data[i] = hlast[2]

\* C13: pushpop(item) returns what push(item) followed by pop() returns, a
\* minimum of the heap's elements together with item, and leaves the same
\* multiset in the heap; on an empty heap it returns item and the heap
\* stays empty.
C13_PushPopIsPushThenPop ==
    [][\A item \in HeapVals :
          PushPop(item) =>
             LET r == HeapPop(HeapPush(data, item)) IN
             /\ hret' = r.ret
             /\ hret'[2] <= item
             /\ \A i \in 1..Len(data) : hret'[2] <= data[i]
             /\ Len(data') = Len(r.data)
             /\ SameBag(data', r.data)
             /\ BagPlus(Append(data, item), data', hret'[2])
             /\ Len(data) = 0 => (hret' = <<"ok", item>> /\ data' = <<>>)]_vars

\* a pushpop has returned its own item, smaller than the root of a full heap
C13_Witness ==
    /\ hlast[1] = "pushpop"
    /\ hret = <<"ok", hlast[2]>>
    /\ Len(data) = MaxHeapLen
    /\ hlast[2] < data[1]

\* C14: replace(item) on a non-empty heap returns the old minimum and
\* leaves the multiset, the size and a valid heap order that pop() followed
\* by push(item) leaves, even when item is smaller than the old minimum.
C14_ReplaceIsPopThenPush ==
    [][\A item \in HeapVals :
          (Replace(item) /\ Len(data) # 0) =>
             LET p == HeapPop(data)
                 q == HeapPush(p.data, item)
             IN /\ hret' = p.ret
                /\ \A i \in 1..Len(data) : hret'[2] <= data[i]
                /\ Len(data') = Len(q)
                /\ Len(data') = Len(data)
                /\ SameBag(data', q)
                /\ \A i \in 1..(Len(data') - 1) :
                      data'[((i - 1) \div 2) + 1] <= data'[i + 1]]_vars

\* a replace has put an item smaller than the old minimum into a full heap
C14_Witness ==
    /\ hlast[1] = "replace"
    /\ hret[1] = "ok"
    /\ hlast[2] < hret[2]
    /\ Len(data) = MaxHeapLen
    /\ data[1] = hlast[2]

\* C15: on an empty heap pop and replace raise and leave the heap empty,
\* and peek returns None; peek never changes the heap and returns the root
\* of a non-empty heap.
C15_EmptyHeapErrors ==
    [][/\ (Len(data) = 0 /\ (Pop \/ \E item \in HeapVals : Replace(item))) =>
             (hret' = <<"IndexError">> /\ data' = <<>>)
       /\ Peek =>
             /\ data' = data
             /\ hret' = IF Len(data) = 0 THEN <<"None">> ELSE <<"ok", data[1]>>]_vars

\* a pop has failed on an empty heap
C15_Witness ==
    /\ hlast[1] = "pop"
    /\ hret = <<"IndexError">>
    /\ Len(data) = 0

\* the index pop and get act on for idx, before the range check
Normalized(idx) == IF idx < 0 THEN idx + lsize ELSE idx

ValidIndex(idx) == Normalized(idx) >= 0 /\ Normalized(idx) < lsize

\* s without its element at position i (1-based)
Without(s, i) == SubSeq(s, 1, i - 1) \o SubSeq(s, i + 1, Len(s))

\* position (1-based) of the first occurrence of v in s
FirstOcc(s, v) ==
    CHOOSE i \in 1..Len(s) : s[i] = v /\ \A j \in 1..(i - 1) : s[j] # v

RECURSIVE Pow2(_)
Pow2(k) == IF k = 0 THEN 1 ELSE 2 * Pow2(k - 1)

ListUnchanged == lbuf' = lbuf /\ lsize' = lsize /\ lcapacity' = lcapacity

\* C16: on a CustomList built by appends, get(idx, default) never raises;
\* for -size <= idx < size it returns what a standard list holding the
\* same values returns for list[idx], otherwise it returns default; the
\* list is left unchanged.
C16_GetMatchesList ==
    [][\A idx \in PopIndices, d \in GetDefaults :
          ListGet(idx, d) =>
             /\ Len(ref) = lsize
             /\ lret' = IF 0 - lsize <= idx /\ idx < lsize
                        THEN <<"ok", PyIndex(ref, idx)>>
                        ELSE <<"ok", d>>
             /\ ListUnchanged]_vars

\* a get has read an element of a list that has grown past its first
\* buffer and holds different values at its two ends
C16_Witness ==
    /\ llast = "get"
    /\ lret[1] = "ok"
    /\ lret[2] \in ListVals
    /\ lcapacity > InitialCapacity
    /\ ref[1] # ref[Len(ref)]

\* C17: after any sequence of list calls, 0 <= size <= capacity,
\* capacity >= 1, and capacity is the initial capacity 4 times a power of
\* two.
C17_CapacityInvariant ==
    /\ 0 <= lsize
    /\ lsize <= lcapacity
    /\ lcapacity >= 1
    /\ Len(lbuf) = lcapacity
    /\ \E k \in 0..MaxListLen : lcapacity = InitialCapacity * Pow2(k)

\* a pop has just halved a buffer that had been doubled twice
C17_Witness ==
    /\ llast = "pop"
    /\ lret[1] = "ok"
    /\ lcapacity = 2 * InitialCapacity
    /\ lsize = InitialCapacity
    /\ lbuf[lsize + 1] = Null

\* C18: pop(idx) with a valid index returns the element at the normalized
\* position, decreases size by one and leaves the other elements in their
\* order, those after the position one place to the left, also when the
\* pop shrinks the capacity.
C18_PopShiftsLeft ==
    [][\A idx \in PopIndices :
          (ListPop(idx) /\ lsize > 0 /\ ValidIndex(idx)) =>
             /\ lret' = <<"ok", Live[Normalized(idx) + 1]>>
             /\ lsize' = lsize - 1
             /\ Live' = Without(Live, Normalized(idx) + 1)]_vars

\* a pop has shrunk the buffer back to the initial capacity and left two
\* different elements
C18_Witness ==
    /\ llast = "pop"
    /\ lret[1] = "ok"
    /\ lcapacity = InitialCapacity
    /\ lsize = 2
    /\ lbuf[3] = Null
    /\ lbuf[1] # lbuf[2]

\* C19: pop raises when size is 0 and raises IndexError when the
\* normalized index is outside [0, size); elements, size and capacity are
\* unchanged in both cases.
C19_PopErrors ==
    [][\A idx \in PopIndices :
          (ListPop(idx) /\ (lsize = 0 \/ ~ValidIndex(idx))) =>
             /\ lret' = <<"IndexError">>
             /\ ListUnchanged]_vars

\* a pop with an index out of range has failed on a list of three elements
C19_Witness ==
    /\ llast = "pop"
    /\ lret = <<"IndexError">>
    /\ lsize = 3

\* C20: remove(value) removes exactly the first occurrence of value and
\* keeps the other elements in order; when value is absent it raises
\* ValueError and leaves the list unchanged.
C20_RemoveFirstOccurrence ==
    [][\A v \in ListVals :
          ListRemove(v) =>
             IF \E i \in 1..lsize : Live[i] = v
             THEN /\ lret' = <<"None">>
                  /\ lsize' = lsize - 1
                  /\ Live' = Without(Live, FirstOcc(Live, v))
             ELSE /\ lret' = <<"ValueError">>
                  /\ ListUnchanged]_vars

\* a remove has succeeded and left a list that still holds both values,
\* in a buffer that has grown
C20_Witness ==
    /\ llast = "remove"
    /\ lret = <<"None">>
    /\ lcapacity > InitialCapacity
    /\ lsize >= 3
    /\ \E i, j \in 1..lsize : i < j /\ lbuf[i] # lbuf[j] /\ lbuf[1] = lbuf[j]

\* capacity after a removal that leaves sz elements in a buffer of c slots
AfterShrink(c, sz) ==
    IF c > InitialCapacity /\ 4 * sz <= c THEN c \div 2 ELSE c

\* s holds the elements of t except one occurrence of x
ListBagMinus(s, t, x) ==
    \A y \in ListVals : Count(s, y) + (IF y = x THEN 1 ELSE 0) = Count(t, y)

\* C21: remove_optimized(value) overwrites the first occurrence of value
\* with the last element: size decreases by one, the multiset loses one
\* occurrence of value, every other position below the old last one keeps
\* its element, and capacity follows the shrink rule of pop; when value is
\* absent it raises ValueError and leaves the list unchanged.
C21_RemoveOptimizedSwapsLast ==
    [][\A v \in ListVals :
          (llast' = "remove_optimized" /\ ListRemoveOptimized(v)) =>
             IF \E i \in 1..lsize : Live[i] = v
             THEN LET m == FirstOcc(Live, v) IN
                  /\ lret' = <<"None">>
                  /\ lsize' = lsize - 1
                  /\ ListBagMinus(Live', Live, v)
                  /\ \A k \in 1..(lsize - 1) :
                        Live'[k] = IF k = m THEN Live[lsize] ELSE Live[k]
                  /\ lcapacity' = AfterShrink(lcapacity, lsize - 1)
             ELSE /\ lret' = <<"ValueError">>
                  /\ ListUnchanged]_vars

\* a remove_optimized has shrunk the buffer back to the initial capacity
\* and left two different elements
C21_Witness ==
    /\ llast = "remove_optimized"
    /\ lret = <<"None">>
    /\ lcapacity = InitialCapacity
    /\ lsize = 2
    /\ lbuf[3] = Null
    /\ lbuf[1] # lbuf[2]

\* a step of pop, remove or remove_optimized
Removal ==
    /\ llast' \in {"pop", "remove", "remove_optimized"}
    /\ \/ \E idx \in PopIndices : ListPop(idx)
       \/ \E v \in ListVals : ListRemove(v)
       \/ \E v \in ListVals : ListRemoveOptimized(v)

\* C22: a call of pop, remove or remove_optimized that removes an element
\* and leaves size <= capacity/4 while capacity exceeds the initial
\* capacity halves the capacity; any other such call (one that fails
\* included) leaves the capacity unchanged; capacity never falls below 4
\* nor below size.
C22_ShrinkRule ==
    [][Removal =>
          /\ lcapacity' = (IF /\ lsize' = lsize - 1
                              /\ lcapacity > InitialCapacity
                              /\ 4 * lsize' <= lcapacity
                           THEN lcapacity \div 2 ELSE lcapacity)
          /\ 2 * (lcapacity \div 2) = lcapacity
          /\ lcapacity' >= InitialCapacity
          /\ lcapacity' >= lsize']_vars

\* a remove has just halved a buffer that had been doubled twice
C22_Witness ==
    /\ llast = "remove"
    /\ lret = <<"None">>
    /\ lcapacity = 2 * InitialCapacity
    /\ lsize = InitialCapacity
    /\ lbuf[lsize + 1] = Null

\* C23: clear sets size to 0 and leaves capacity unchanged, whatever the
\* capacity; on the cleared list every get(idx, default) returns default
\* and the next append stores its element at index 0.
C23_ClearKeepsCapacity ==
    [][/\ ListClear => (lsize' = 0 /\ lcapacity' = lcapacity /\ lret' = <<"None">>)
       /\ \A idx \in PopIndices, d \in GetDefaults :
             (llast \in {"clear", "get"} /\ lsize = 0 /\ ListGet(idx, d)) =>
                (lret' = <<"ok", d>> /\ ListUnchanged)
       /\ \A v \in ListVals :
             (llast \in {"clear", "get"} /\ lsize = 0 /\ ListAppend(v)) =>
                /\ lsize' = 1
                /\ lbuf'[1] = v
                /\ lcapacity' = lcapacity]_vars

\* a get on a list cleared after its buffer had been doubled twice has
\* returned the default, and the buffer is still that large
C23_Witness ==
    /\ llast = "get"
    /\ lret = <<"ok", 9>>
    /\ lsize = 0
    /\ lcapacity = 4 * InitialCapacity

\* C24: delete(key) on a present key returns True, decrements size by one
\* and makes get(key) return the default; on an absent key (a second
\* delete included) it returns False and leaves size unchanged; in both
\* cases capacity and what get returns for every other key are unchanged.
C24_DeleteFrame ==
    [][\A k \in Keys :
          (last' = <<"delete", k>> /\ Delete(k)) =>
             /\ IF present[k] # Absent
                THEN ret' = "True" /\ size' = size - 1
                ELSE ret' = "False" /\ size' = size
             /\ HGet(Map', k, "default") = "default"
             /\ cap' = cap
             /\ \A j \in Keys \ {k} :
                   HGet(Map', j, "default") = HGet(Map, j, "default")]_vars

\* a delete has removed a key from a map that has been resized and still
\* holds two keys
C24_Witness ==
    /\ last[1] = "delete"
    /\ ret = "True"
    /\ cap > cap0
    /\ size = 2
    /\ NumPresent = 2

\* C25: over set, delete and bulk_set the capacity never decreases; a set
\* that resizes exactly doubles the capacity, and the resize leaves the
\* size at the count the insertion gave it.
C25_CapacityMonotone ==
    [][/\ cap' >= cap
       /\ \A k \in Keys, v \in BulkValues :
             (last' = <<"set", k>> /\ Set(k, v)) =>
                /\ cap' \in {cap, 2 * cap}
                /\ size' = size + (IF InItems(Map, k) THEN 0 ELSE 1)
                /\ cap' # cap => ~InItems(Map, k)]_vars

\* a set has left three entries, more than half of the first capacity, in
\* a map of load factor 1/2 and twice its first capacity
C25_Witness ==
    /\ last[1] = "set"
    /\ load = <<1, 2>>
    /\ cap = 2 * cap0
    /\ size = 3
    /\ Len(HItems(Map)) = 3

\* the keys of a sequence of pairs, in order
KeysOf(pairs) == [i \in 1..Len(pairs) |-> pairs[i][1]]

NoDupKeys(pairs) ==
    \A i, j \in 1..Len(pairs) : pairs[i][1] = pairs[j][1] => i = j

\* C26: insert_or_replace(key, value) returns True and adds a node at the
\* head when key is not in the chain; otherwise it returns False,
\* overwrites that node's value and changes neither the length nor the
\* position of any node; a chain never holds two nodes with one key and
\* items() lists the pairs most recently inserted first.
C26_InsertAtHeadOrReplace ==
    [][/\ \A k \in Keys, v \in Values :
             (clast' = "insert_or_replace" /\ ChainInsertOrReplace(k, v)) =>
                IF \A i \in 1..Len(chain) : chain[i][1] # k
                THEN /\ cret' = <<"ok", TRUE>>
                     /\ chain' = <<<<k, v>>>> \o chain
                ELSE /\ cret' = <<"ok", FALSE>>
                     /\ Len(chain') = Len(chain)
                     /\ \A i \in 1..Len(chain) :
                           chain'[i] = IF chain[i][1] = k THEN <<k, v>>
                                       ELSE chain[i]
       /\ NoDupKeys(chain')
       /\ KeysOf(LLItems(chain')) = born']_vars

\* a replacement has left a chain of three nodes that do not all hold the
\* same value
C26_Witness ==
    /\ clast = "insert_or_replace"
    /\ cret = <<"ok", FALSE>>
    /\ Len(chain) = 3
    /\ chain[3][2] # chain[1][2]

\* C27: after any sequence of set_quantity, adjust_quantity, record_sale,
\* record_return and receive_po calls on a product created with a
\* non-negative quantity, the stored quantity is never negative.
C27_QuantityNeverNegative ==
    \A i \in 1..Len(products) : products[i].quantity >= 0

\* the quantity a receive_po call adds: the order's own when none is given
Effective(po_id, qty_received) ==
    IF qty_received = FullQty THEN pos[po_id].quantity ELSE qty_received

\* C28: receive_po on a purchase order that does not exist, is already
\* 'received', or with a non-positive quantity raises and changes neither
\* the order nor the product; otherwise it adds the quantity to the
\* product and marks the order 'received'; the status never leaves
\* 'received' and the stock of an order is added exactly once, when it is
\* received.
C28_ReceivedAtMostOnce ==
    [][/\ \A po_id \in PoIds, q \in QtyInputs \cup {FullQty} :
             (dlast' = "receive_po" /\ DaoReceivePo(po_id, q)) =>
                IF \/ po_id \notin 1..Len(pos)
                   \/ pos[po_id].status = "received"
                   \/ Effective(po_id, q) <= 0
                THEN /\ dret' = <<"ValueError">>
                     /\ products' = products
                     /\ pos' = pos
                ELSE /\ dret' = <<"None">>
                     /\ products'[pos[po_id].product_id].quantity =
                           products[pos[po_id].product_id].quantity
                              + Effective(po_id, q)
                     /\ pos' = [pos EXCEPT ![po_id].status = "received"]
       /\ \A i \in 1..Len(pos) :
             pos[i].status = "received" => pos'[i].status = "received"
       /\ \A i \in 1..Len(pos') :
             receipts'[i] = IF pos'[i].status = "received" THEN 1 ELSE 0]_vars

\* a receive_po has failed when both purchase orders had been received,
\* each of them once
C28_Witness ==
    /\ dlast = "receive_po"
    /\ dret = <<"ValueError">>
    /\ Len(pos) = 2
    /\ receipts = <<1, 1>>

\* C29: in every reachable state of a HashMap under set, delete and
\* bulk_set, every stored node lies in the chain of bucket
\* hash(key) mod capacity, the bucket index is within [0, capacity) and
\* equals hash(key) mod capacity on the bitmask path too (negative hashes
\* included), and no key is stored in more than one node.
C29_NodesInTheirBucket ==
    /\ Len(buckets) = cap
    /\ \A k \in Keys :
          /\ BucketIndex(Map, k) >= 0
          /\ BucketIndex(Map, k) < cap
          /\ BucketIndex(Map, k) = Hash(k) % cap
    /\ \A b \in 1..cap :
          \A n \in 1..Len(buckets[b].nodes) :
             /\ buckets[b].alloc
             /\ Hash(buckets[b].nodes[n][1]) % cap = b - 1
    /\ NoDupKeys(HItems(Map))

\* three keys of negative hash sit in three different buckets of a table
\* that has doubled to a power of two
C29_Witness ==
    /\ seed < 0
    /\ cap = 2 * cap0
    /\ BitAnd(cap, cap - 1) = 0
    /\ size = 3
    /\ Cardinality({b \in 1..cap : Len(buckets[b].nodes) = 1}) = 3

\* C30: a pop issued immediately after an append that doubled the
\* capacity never shrinks it, and an append issued immediately after a
\* removal that halved the capacity never grows it: after a growth
\* size > capacity/4, after a shrink size <= capacity/2.
C30_NoThrash ==
    [][/\ \A idx \in PopIndices :
             (llast = "append" /\ lcapacity = 2 * lcaps[2] /\ ListPop(idx)) =>
                lcapacity' = lcapacity
       /\ \A v \in ListVals :
             (/\ llast \in {"pop", "remove", "remove_optimized"}
              /\ 2 * lcapacity = lcaps[2]
              /\ ListAppend(v)) =>
                lcapacity' = lcapacity
       /\ (llast' = "append" /\ lcapacity' = 2 * lcapacity) =>
             4 * lsize' > lcapacity'
       /\ (/\ llast' \in {"pop", "remove", "remove_optimized"}
           /\ 2 * lcapacity' = lcapacity) =>
             2 * lsize' <= lcapacity']_vars

\* an append has doubled the buffer from 8 to 16 slots and the pop after
\* it has removed an element and left the 16 slots
C30_Witness ==
    /\ llast = "pop"
    /\ lret[1] = "ok"
    /\ lcaps = <<2 * InitialCapacity, 4 * InitialCapacity>>
    /\ lcapacity = 4 * InitialCapacity

====
